---------------------------- MODULE Spec2Model ----------------------------
(***************************************************************************)
(* A model of main.py: a FastAPI proxy in front of the QuickBooks REST     *)
(* API.  The state is the token file tokens.json, the process environment, *)
(* and, for every request being served, the position of its handler and    *)
(* the handler's local variables.  Handlers run concurrently (FastAPI runs *)
(* "def" handlers in a thread pool), and the token file is their only      *)
(* shared mutable state.                                                   *)
(*                                                                         *)
(* JSON objects are functions from key strings to values; Python's None is *)
(* the value None; JSON arrays are sequences.  The token record is kept as *)
(* a sequence of <<key, value>> pairs, because Python dictionaries keep    *)
(* insertion order and json.dump writes the keys in that order.            *)
(***************************************************************************)
EXTENDS Naturals, Sequences, FiniteSets, TLC

VARIABLES
    tokenFile,      \* tokens.json: [exists, cells]
    REFRESH_TOKEN,  \* os.getenv("REFRESH_TOKEN")
    COMPANY_ID,     \* os.getenv("COMPANY_ID")
    workers,        \* the requests the server handles at the same time
    service,        \* how the external service answers in this run
    served,         \* the number of requests accepted so far
    pc,             \* pc[p]: where request p's handler stands
    handler,        \* handler[p]: the endpoint request p is for
    req,            \* req[p]: the body of a POST /create-invoice
    tokens,         \* tokens[p]: the handler's local token mapping
    old_tokens,     \* old_tokens[p]: the mapping /refresh loaded from the file
    observed,       \* observed[p]: the state load_tokens found the file in
    qb,             \* qb[p]: the QuickBooksClient of the request, or NoClient
    customers,      \* customers[p]: the Customer list /customer-invoices got
    up,             \* up[p]: the last response of the external service
    payload,        \* payload[p]: the token payload /refresh received
    calls,          \* calls[p]: the outbound HTTP calls made for request p
    wbuf,           \* wbuf[p]: chunks json.dump has produced, not yet on disk
    wpos,           \* wpos[p]: the file offset of p's open file object
    resp,           \* resp[p]: the HTTP response of request p
    pinned,         \* history: the first realmId a complete token file held
    jCustomers,     \* the Customer list of the joined view's first query
    jInvoices,      \* the Invoice list of the joined view's second query
    jResult,        \* the list the joined view builds
    jpc             \* "off", "ready" (lists received) or "done" (view built)

vars == <<tokenFile, REFRESH_TOKEN, COMPANY_ID, workers, service, served, pc, handler, req,
          tokens, old_tokens, observed, qb, customers, up, payload, calls, wbuf, wpos, resp,
          pinned,
          jCustomers, jInvoices, jResult, jpc>>

storeVars == <<tokenFile, pinned>>
envVars == <<REFRESH_TOKEN, COMPANY_ID, workers, service>>
joinVars == <<jCustomers, jInvoices, jResult, jpc>>

-----------------------------------------------------------------------------
(* Bounds *)

NumProcs == 2
MaxRequests == 3
MaxCustomers == 2
MaxInvoices == 2

Procs == 1..NumProcs

-----------------------------------------------------------------------------
(* Python values *)

None == "None"

EmptyObj == [k \in {} |-> None]

\* dict.get(k, default) on a JSON object
Get(o, k, default) == IF k \in DOMAIN o THEN o[k] ELSE default

\* truth value of a string-or-None ("" and None are falsy)
Truthy(v) == v # None /\ v # ""

\* truth value of a JSON object (the empty dict is falsy)
TruthyObj(o) == DOMAIN o # {}

-----------------------------------------------------------------------------
(* The token mapping: an insertion-ordered dict of strings *)

EmptyDict == <<>>

DictHas(d, k) == \E i \in 1..Len(d) : d[i][1] = k

DictGet(d, k) ==
    IF DictHas(d, k)
    THEN d[CHOOSE i \in 1..Len(d) : d[i][1] = k][2]
    ELSE None

\* d[k] = v: an existing key keeps its place, a new key goes last
DictSet(d, k, v) ==
    IF DictHas(d, k)
    THEN [i \in 1..Len(d) |-> IF d[i][1] = k THEN <<k, v>> ELSE d[i]]
    ELSE Append(d, <<k, v>>)

\* the mapping a dict denotes, order forgotten (Python's dict equality)
AsMap(d) == [k \in {d[i][1] : i \in 1..Len(d)} |-> DictGet(d, k)]

-----------------------------------------------------------------------------
(* tokens.json.  json.dump hands the file object one chunk after another  *)
(* ("{", each member, "}"); the buffered file object puts them on disk     *)
(* when its buffer fills and when the file is closed, so a save reaches    *)
(* the disk in one or more writes at chunk boundaries.                     *)

OPEN == <<"{", "">>
CLOSE == <<"}", "">>
HOLE == <<"NUL", "">>

NoFile == [exists |-> FALSE, cells |-> <<>>]

\* json.dump(tokens, f): the chunks written for a token mapping
json_dump(d) == <<OPEN>> \o d \o <<CLOSE>>

FileOf(d) == [exists |-> TRUE, cells |-> json_dump(d)]

IsMember(c) == c[1] \notin {"{", "}", "NUL"}

\* the text is one complete JSON object
WellFormed(cells) ==
    /\ Len(cells) >= 2
    /\ cells[1] = OPEN
    /\ cells[Len(cells)] = CLOSE
    /\ \A i \in 2..(Len(cells) - 1) : IsMember(cells[i])

RECURSIVE DictOfMembers(_)
DictOfMembers(ms) ==
    IF ms = <<>> THEN EmptyDict
    ELSE LET last == ms[Len(ms)]
         IN DictSet(DictOfMembers(SubSeq(ms, 1, Len(ms) - 1)), last[1], last[2])

\* json.load(f) of a well-formed text (a repeated key keeps its last value)
json_load(cells) == DictOfMembers(SubSeq(cells, 2, Len(cells) - 1))

\* write(2) of chunk at offset pos (counted in chunks, from 0)
WriteAt(cells, pos, chunk) ==
    LET n == IF pos + Len(chunk) > Len(cells) THEN pos + Len(chunk) ELSE Len(cells)
    IN [i \in 1..n |->
           IF i > pos /\ i <= pos + Len(chunk) THEN chunk[i - pos]
           ELSE IF i <= Len(cells) THEN cells[i]
           ELSE HOLE]

\* mutant of load_tokens: every failure to read is caught, not only
\* FileNotFoundError
load_tokens_lenient(f) ==
    IF ~f.exists \/ ~WellFormed(f.cells) THEN [outcome |-> "empty", value |-> EmptyDict]
    ELSE [outcome |-> "ok", value |-> json_load(f.cells)]

\* what load_tokens() does with the file it finds:
\*   "empty"  the file is missing: FileNotFoundError is caught, {} returned
\*   "raise"  json.load fails: the JSONDecodeError is not caught
\*   "ok"     the parsed mapping is returned
load_tokens(f) ==
    IF ~f.exists THEN [outcome |-> "empty", value |-> EmptyDict]
    ELSE IF ~WellFormed(f.cells) THEN [outcome |-> "raise", value |-> EmptyDict]
    ELSE [outcome |-> "ok", value |-> json_load(f.cells)]

Complete(f) == f.exists /\ WellFormed(f.cells)

\* the file of a save that is under way: created or truncated, and holding
\* at most the leading chunks of one record, without its closing brace
Partial(f) ==
    /\ f.exists
    /\ \/ f.cells = <<>>
       \/ /\ f.cells[1] = OPEN
          /\ \A i \in 2..Len(f.cells) : IsMember(f.cells[i])

\* history: the state a load_tokens() found the file in
FileState(f) ==
    IF ~f.exists THEN "missing"
    ELSE IF Partial(f) THEN "partial"
    ELSE IF Complete(f) THEN "complete"
    ELSE "garbled"

\* history: the realmId of the first complete token file that has one
Pin(old, f) ==
    IF old # None THEN old
    ELSE IF f.exists /\ WellFormed(f.cells) THEN DictGet(json_load(f.cells), "realmId")
    ELSE None

-----------------------------------------------------------------------------
(* QuickBooksClient and get_qb_client *)

NoClient == [access_token |-> None, realm_id |-> None]

QuickBooksClient(access_token, realm_id) ==
    [access_token |-> access_token, realm_id |-> realm_id]

\* tokens.get("realmId") or COMPANY_ID
RealmOf(t, company) ==
    IF Truthy(DictGet(t, "realmId")) THEN DictGet(t, "realmId") ELSE company

\* mutant of ClientMissing: "and" for "or"
ClientMissingBoth(access_token, realm_id) == ~Truthy(access_token) /\ ~Truthy(realm_id)

\* "if not access_token or not realm_id: return None"
ClientMissing(access_token, realm_id) == ~Truthy(access_token) \/ ~Truthy(realm_id)

get_qb_client(t, company) ==
    IF ClientMissing(DictGet(t, "access_token"), RealmOf(t, company))
    THEN NoClient
    ELSE QuickBooksClient(DictGet(t, "access_token"), RealmOf(t, company))

NotAuthenticated ==
    [error |-> "No autenticado. Usa /connect y asegurate de tener realmId"]

\* an outbound HTTP call, as the external service sees it
Call(to, auth, realm, data) == [to |-> to, auth |-> auth, realm |-> realm, data |-> data]

-----------------------------------------------------------------------------
(* Response shaping *)

\* data.get("QueryResponse", {}).get(entity, [])
QueryList(data, entity) == Get(Get(data, "QueryResponse", EmptyObj), entity, <<>>)

Project(o, fields) == [k \in fields |-> Get(o, k, None)]

extract_customer_fields(cust) ==
    Project(cust, {"Id", "DisplayName", "PrimaryEmailAddr", "PrimaryPhone",
                   "CompanyName", "Balance"})

extract_invoice_fields(inv) ==
    Project(inv, {"Id", "DocNumber", "CustomerRef", "BillEmail", "TxnDate",
                  "DueDate", "Line", "TxnTaxDetail", "TotalAmt", "Balance"})

extract_item_fields(item) ==
    Project(item, {"Id", "Name", "Sku", "QtyOnHand", "UnitPrice", "Type", "Active"})

MapList(l, F(_)) == [i \in 1..Len(l) |-> F(l[i])]

\* {c["Id"]: c for c in customers}: a later customer replaces an earlier one
customer_map(cs) ==
    [id \in {cs[i].Id : i \in 1..Len(cs)} |->
        LET hits == {i \in 1..Len(cs) : cs[i].Id = id}
        IN cs[CHOOSE i \in hits : \A j \in hits : j <= i]]

\* mutant of location_of_sale: LocationRef is looked at before ShipAddr
location_of_sale_swapped(inv) ==
    IF "LocationRef" \in DOMAIN inv /\ TruthyObj(inv.LocationRef)
    THEN Get(inv.LocationRef, "name", None)
    ELSE IF "ShipAddr" \in DOMAIN inv /\ TruthyObj(inv.ShipAddr)
    THEN Get(inv.ShipAddr, "City", None)
    ELSE IF "SalesTermRef" \in DOMAIN inv /\ TruthyObj(inv.SalesTermRef)
    THEN Get(inv.SalesTermRef, "name", None)
    ELSE None

\* the if / elif / elif chain of customer_invoices
location_of_sale(inv) ==
    IF "ShipAddr" \in DOMAIN inv /\ TruthyObj(inv.ShipAddr)
    THEN Get(inv.ShipAddr, "City", None)
    ELSE IF "LocationRef" \in DOMAIN inv /\ TruthyObj(inv.LocationRef)
    THEN Get(inv.LocationRef, "name", None)
    ELSE IF "SalesTermRef" \in DOMAIN inv /\ TruthyObj(inv.SalesTermRef)
    THEN Get(inv.SalesTermRef, "name", None)
    ELSE None

invoice_line(line) ==
    LET detail == Get(line, "SalesItemLineDetail", EmptyObj)
    IN [type |-> Get(line, "DetailType", None),
        name |-> Get(Get(detail, "ItemRef", EmptyObj), "name", None),
        qty |-> Get(detail, "Qty", None),
        rate |-> Get(detail, "UnitPrice", None),
        amount |-> Get(line, "Amount", None)]

\* mutant of customer_of: an unmatched reference falls back to a customer
\* of the map instead of {}
customer_of_any(inv, cmap) ==
    LET cust_ref == Get(inv, "CustomerRef", EmptyObj)
        cust_id == Get(cust_ref, "value", None)
    IN IF cust_id \in DOMAIN cmap THEN cmap[cust_id]
       ELSE IF DOMAIN cmap # {} THEN cmap[CHOOSE id \in DOMAIN cmap : TRUE]
       ELSE EmptyObj

\* the customer an invoice resolves to: customer_map.get(cust_id, {})
customer_of(inv, cmap) ==
    LET cust_ref == Get(inv, "CustomerRef", EmptyObj)
        cust_id == Get(cust_ref, "value", None)
    IN IF cust_id \in DOMAIN cmap THEN cmap[cust_id] ELSE EmptyObj

invoice_entry(inv, cmap) ==
    LET customer == customer_of(inv, cmap)
    IN [customer |-> Get(customer, "DisplayName", None),
        customer_email |-> Get(Get(customer, "PrimaryEmailAddr", EmptyObj), "Address", None),
        invoice_date |-> Get(inv, "TxnDate", None),
        invoice_due_date |-> Get(inv, "DueDate", None),
        location_of_sale |-> location_of_sale(inv),
        invoice_no |-> Get(inv, "DocNumber", None),
        lines |-> MapList(Get(inv, "Line", <<>>), invoice_line)]

\* the list customer_invoices returns under "customer_invoices"
customer_invoices_result(cs, invoices) ==
    LET cmap == customer_map(cs)
        entry(inv) == invoice_entry(inv, cmap)
    IN MapList(invoices, entry)

-----------------------------------------------------------------------------
(* The query results the joined view is checked on *)

Kinds == {"absent", "empty", "nofield", "value"}

\* one optional nested object of an invoice: absent, {}, an object without
\* the field read from it, or an object with it
Part(key, kind, field, val) ==
    CASE kind = "absent" -> EmptyObj
      [] kind = "empty" -> [k \in {key} |-> EmptyObj]
      [] kind = "nofield" -> [k \in {key} |-> [other |-> "o"]]
      [] kind = "value" -> [k \in {key} |-> [f \in {field} |-> val]]

LinePart(withLine) ==
    IF withLine
    THEN [Line |-> << [DetailType |-> "SalesItemLineDetail", Amount |-> "100.0",
                       SalesItemLineDetail |-> [ItemRef |-> [value |-> "3", name |-> "Rock"],
                                                Qty |-> "2"]],
                      [DetailType |-> "SubTotalLineDetail", Amount |-> "100.0"] >>]
    ELSE EmptyObj

Invoice(doc, cust, ship, loc, term, withLine) ==
    [DocNumber |-> doc, TxnDate |-> "2024-01-01"]
        @@ (IF cust = "absent" THEN EmptyObj
            ELSE IF cust = "novalue" THEN [CustomerRef |-> [name |-> "n"]]
            ELSE [CustomerRef |-> [value |-> cust]])
        @@ Part("ShipAddr", ship, "City", "X")
        @@ Part("LocationRef", loc, "name", "Y")
        @@ Part("SalesTermRef", term, "name", "Z")
        @@ LinePart(withLine)

CustomerIds == {"1", "2"}
CustomerRefs == {"absent", "novalue", "1", "2", "3"}

Customer(id, shape) ==
    [Id |-> id]
        @@ (IF shape = "bare" THEN EmptyObj ELSE [DisplayName |-> "Name" \o id])
        @@ (IF shape = "full" THEN [PrimaryEmailAddr |-> [Address |-> id \o "@x.test"]]
            ELSE IF shape = "bare" THEN [PrimaryEmailAddr |-> EmptyObj]
            ELSE EmptyObj)

Customers == {Customer(id, shape) : id \in CustomerIds, shape \in {"full", "named", "bare"}}

\* every combination of the three location sources, on an invoice of its own
LocInvoices ==
    {Invoice("1001", cust, ship, loc, term, withLine) :
        cust \in {"absent", "1"}, ship \in Kinds, loc \in Kinds, term \in Kinds,
        withLine \in BOOLEAN}

\* invoices that differ in their customer reference and in their ship-to city
JoinInvoices ==
    {Invoice(doc, cust, ship, "absent", "absent", FALSE) :
        doc \in {"1001"}, cust \in CustomerRefs, ship \in {"absent", "value"}}

SeqsUpTo(S, n) == UNION {[1..m -> S] : m \in 0..n}

JoinInit ==
    /\ jCustomers \in SeqsUpTo(Customers, MaxCustomers)
    /\ \/ jInvoices \in SeqsUpTo(JoinInvoices, MaxInvoices)
       \/ jInvoices \in [1..1 -> LocInvoices]
    /\ jResult = <<>>
    /\ jpc = "ready"

\* lines 193-236 of customer_invoices, from the two query results to the list
JoinRun ==
    /\ jpc = "ready"
    /\ jResult' = customer_invoices_result(jCustomers, jInvoices)
    /\ jpc' = "done"
    /\ UNCHANGED <<jCustomers, jInvoices>>

-----------------------------------------------------------------------------
(* The external service *)

\* status codes the external service answers with
Statuses == {200, 201, 401}

\* raw bodies of its answers
Texts == {"AuthenticationFailed", "ThrottleExceeded"}

\* the raw body of an answer that carries JSON
JsonText == "<json>"

NoResponse == [status_code |-> 0, text |-> ""]

\* the answers the external service can give: a status, and with a status
\* other than 200 one of its raw bodies
Answers == {a \in service.statuses \X (service.texts \cup {JsonText}) :
               (a[1] = 200) = (a[2] = JsonText)}

\* the JSON bodies, of those listed, that it can send
Sent(bodies) == {i \in 1..Len(bodies) : i \in service.bodies}

Response(status_code, text) == [status_code |-> status_code, text |-> text]

CompanyInfoBody == [CompanyInfo |-> [CompanyName |-> "Acme", Country |-> "US"]]

CustomerBodies ==
    << EmptyObj,
       [QueryResponse |-> EmptyObj],
       [QueryResponse |-> [Customer |-> << Customer("1", "full") @@ [Foo |-> "bar"] >>]] >>

InvoiceBodies ==
    << EmptyObj,
       [QueryResponse |-> EmptyObj],
       [QueryResponse |->
           [Invoice |-> << Invoice("1001", "1", "value", "value", "absent", TRUE),
                           Invoice("1002", "2", "absent", "absent", "value", FALSE) >>]] >>

ItemBodies ==
    << EmptyObj,
       [QueryResponse |-> EmptyObj],
       [QueryResponse |->
           [Item |-> << [Id |-> "3", Name |-> "Rock", Type |-> "Inventory",
                         QtyOnHand |-> "10", IncomeAccountRef |-> "79"] >>]] >>

CreatedBody == [Invoice |-> [Id |-> "130", DocNumber |-> "1038"]]

FullService ==
    [statuses |-> Statuses, texts |-> Texts, bodies |-> {1, 2, 3}, payloads |-> {1, 2, 3}]

\* token payloads of the provider's token endpoint
Payloads ==
    << << <<"access_token", "new">> >>,
       << <<"realmId", "999">>, <<"access_token", "new">> >>,
       << <<"refresh_token", "rt2">> >> >>

-----------------------------------------------------------------------------
(* Requests *)

ClientHandlers ==
    {"customer_info", "customers", "invoices", "customer_invoices", "inventory",
     "create_invoice"}

DataFetch == {"customer_info", "customers", "invoices", "customer_invoices", "inventory"}

Handlers == ClientHandlers \cup {"refresh"}

NoRequest == EmptyObj
NotRead == "unread"
NoReply == [status |-> 0, body |-> EmptyObj]

\* what FastAPI sends when a handler returns a value
Ok(body) == [status |-> 200, body |-> body]

\* what it sends when the handler raises
ServerError == [status |-> 500, body |-> [detail |-> "Internal Server Error"]]

\* what it sends when the request body does not fit the handler's model
Unprocessable == [status |-> 422, body |-> [detail |-> "field required"]]

ErrorBody(text) == [error |-> text]

\* bodies of POST /create-invoice
GoodLine == [Amount |-> "100.0", DetailType |-> "SalesItemLineDetail",
             SalesItemLineDetail |-> [ItemRef |-> [value |-> "3"]]]

InvoicePayloads ==
    {(IF cr THEN [CustomerRef |-> [value |-> "1"]] ELSE EmptyObj)
        @@ (CASE ln = "absent" -> EmptyObj
              [] ln = "none" -> [Line |-> <<>>]
              [] ln = "good" -> [Line |-> <<GoodLine>>]
              [] ln = "bad" -> [Line |-> << [DetailType |-> "SalesItemLineDetail"] >>])
        @@ (IF due THEN [DueDate |-> "2024-02-01", Memo |-> "m"] ELSE EmptyObj) :
     cr \in BOOLEAN, ln \in {"absent", "none", "good", "bad"}, due \in BOOLEAN}

\* InvoiceLineDetail: Amount and DetailType are required
ValidLine(line) == {"Amount", "DetailType"} \subseteq DOMAIN line

\* mutant of RequiredFields: CustomerRef declared Optional
RequiredFieldsLineOnly == {"Line"}

\* the fields InvoiceCreateModel requires
RequiredFields == {"CustomerRef", "Line"}

\* InvoiceCreateModel: the required fields, and every line an InvoiceLineDetail
Validates(body) ==
    /\ RequiredFields \subseteq DOMAIN body
    /\ \A i \in 1..Len(body.Line) : ValidLine(body.Line[i])

-----------------------------------------------------------------------------
(* Steps of a request *)

Finish(p, r) ==
    /\ resp' = [resp EXCEPT ![p] = r]
    /\ pc' = [pc EXCEPT ![p] = "done"]

Goto(p, where) ==
    /\ pc' = [pc EXCEPT ![p] = where]
    /\ resp' = resp

\* requests.post / requests.get through the client, with its bearer header
Send(p, to, data) ==
    calls' = [calls EXCEPT ![p] =
                 Append(@, Call(to, qb[p].access_token, qb[p].realm_id, data))]

\* a request for an endpoint without a body arrives
Receive(p, routes) ==
    /\ p \in workers
    /\ pc[p] = "idle"
    /\ served < MaxRequests
    /\ served' = served + 1
    /\ \E h \in routes :
           handler' = [handler EXCEPT ![p] = h]
    /\ Goto(p, "body")
    /\ UNCHANGED <<storeVars, envVars, joinVars, req, tokens, old_tokens, observed, qb,
                   customers, up, payload, calls, wbuf, wpos>>

\* POST /create-invoice arrives: FastAPI fits the body to InvoiceCreateModel
\* and calls the handler only when it fits
ReceiveInvoice(p) ==
    /\ p \in workers
    /\ pc[p] = "idle"
    /\ served < MaxRequests
    /\ served' = served + 1
    /\ \E body \in InvoicePayloads :
           /\ req' = [req EXCEPT ![p] = body]
           /\ IF Validates(body) THEN Goto(p, "body") ELSE Finish(p, Unprocessable)
    /\ handler' = [handler EXCEPT ![p] = "create_invoice"]
    /\ UNCHANGED <<storeVars, envVars, joinVars, tokens, old_tokens, observed, qb,
                   customers, up, payload, calls, wbuf, wpos>>

\* qb = get_qb_client(); if not qb: return {"error": ...}
AcquireClient(p) ==
    /\ pc[p] = "body"
    /\ handler[p] \in ClientHandlers
    /\ observed' = [observed EXCEPT ![p] = FileState(tokenFile)]
    /\ LET r == load_tokens(tokenFile)
           c == get_qb_client(r.value, COMPANY_ID)
       IN IF r.outcome = "raise"
          THEN /\ Finish(p, ServerError)
               /\ UNCHANGED <<tokens, qb>>
          ELSE /\ tokens' = [tokens EXCEPT ![p] = r.value]
               /\ qb' = [qb EXCEPT ![p] = c]
               /\ IF c = NoClient
                  THEN Finish(p, Ok(NotAuthenticated))
                  ELSE Goto(p, "call")
    /\ UNCHANGED <<storeVars, envVars, served, joinVars, handler, req, old_tokens,
                   customers, up, payload, calls, wbuf, wpos>>

\* the body of customer_info after the client check
CompanyInfoReply(status_code, text) ==
    [status_code |-> status_code,
     data |-> IF status_code = 200 THEN CompanyInfoBody ELSE text]

customer_info(p) ==
    /\ pc[p] = "call"
    /\ handler[p] = "customer_info"
    /\ \E a \in Answers :
           /\ up' = [up EXCEPT ![p] = Response(a[1], a[2])]
           /\ Finish(p, Ok(CompanyInfoReply(a[1], a[2])))
    /\ Send(p, "companyinfo", "")
    /\ UNCHANGED <<storeVars, envVars, served, joinVars, handler, req, tokens, old_tokens, observed,
                   qb, customers, payload, wbuf, wpos>>

\* "if response.status_code != 200: return {"error": response.text}"
QueryFailed(status_code) == status_code # 200

\* one qb.query(sql) and the reply built from it
Query(p, sql, bodies, Shape(_)) ==
    /\ pc[p] = "call"
    /\ \E a \in Answers, i \in Sent(bodies) :
           /\ up' = [up EXCEPT ![p] = Response(a[1], a[2])]
           /\ IF QueryFailed(a[1])
              THEN Finish(p, Ok(ErrorBody(a[2])))
              ELSE Finish(p, Ok(Shape(bodies[i])))
    /\ Send(p, "query", sql)
    /\ UNCHANGED <<storeVars, envVars, served, joinVars, handler, req, tokens, old_tokens, observed,
                   qb, customers, payload, wbuf, wpos>>

CustomersReply(data) ==
    [customers |-> MapList(QueryList(data, "Customer"), extract_customer_fields)]

InvoicesReply(data) ==
    [invoices |-> MapList(QueryList(data, "Invoice"), extract_invoice_fields)]

InventoryReply(data) ==
    [inventory |-> MapList(QueryList(data, "Item"), extract_item_fields)]

get_customers(p) ==
    /\ handler[p] = "customers"
    /\ Query(p, "SELECT * FROM Customer", CustomerBodies, CustomersReply)

get_invoices(p) ==
    /\ handler[p] = "invoices"
    /\ Query(p, "SELECT * FROM Invoice", InvoiceBodies, InvoicesReply)

get_inventory(p) ==
    /\ handler[p] = "inventory"
    /\ Query(p, "SELECT * FROM Item WHERE Type = 'Inventory'", ItemBodies,
             InventoryReply)

\* customer_invoices: the Customer query
customer_invoices_customers(p) ==
    /\ pc[p] = "call"
    /\ handler[p] = "customer_invoices"
    /\ \E a \in Answers, i \in Sent(CustomerBodies) :
           /\ up' = [up EXCEPT ![p] = Response(a[1], a[2])]
           /\ IF QueryFailed(a[1])
              THEN /\ Finish(p, Ok(ErrorBody(a[2])))
                   /\ UNCHANGED customers
              ELSE /\ customers' = [customers EXCEPT ![p] =
                                       QueryList(CustomerBodies[i], "Customer")]
                   /\ Goto(p, "call2")
    /\ Send(p, "query", "SELECT Id, DisplayName, PrimaryEmailAddr FROM Customer")
    /\ UNCHANGED <<storeVars, envVars, served, joinVars, handler, req, tokens, old_tokens, observed,
                   qb, payload, wbuf, wpos>>

\* customer_invoices: the Invoice query and the joined list
customer_invoices_invoices(p) ==
    /\ pc[p] = "call2"
    /\ \E a \in Answers, i \in Sent(InvoiceBodies) :
           /\ up' = [up EXCEPT ![p] = Response(a[1], a[2])]
           /\ IF QueryFailed(a[1])
              THEN Finish(p, Ok(ErrorBody(a[2])))
              ELSE Finish(p, Ok([customer_invoices |->
                       customer_invoices_result(customers[p],
                                                QueryList(InvoiceBodies[i], "Invoice"))]))
    /\ Send(p, "query", "SELECT * FROM Invoice")
    /\ UNCHANGED <<storeVars, envVars, served, joinVars, handler, req, tokens, old_tokens, observed,
                   qb, customers, payload, wbuf, wpos>>

\* the fields of InvoiceCreateModel
ModelFields == {"CustomerRef", "Line", "BillEmail", "TxnDate", "DueDate"}

\* invoice_data.dict(exclude_none=True): the model's fields that were given
\* (a field the model does not declare is dropped, an optional field that was
\* not given is None and is left out)
dict_exclude_none(body) == [k \in DOMAIN body \cap ModelFields |-> body[k]]

\* "if response.status_code not in (200, 201)"
CreateFailed(status_code) == status_code \notin {200, 201}

create_invoice(p) ==
    /\ pc[p] = "call"
    /\ handler[p] = "create_invoice"
    /\ \E a \in Answers :
           /\ up' = [up EXCEPT ![p] = Response(a[1], a[2])]
           /\ IF CreateFailed(a[1])
              THEN Finish(p, Ok(ErrorBody(a[2])))
              ELSE Finish(p, Ok(CreatedBody))
    /\ Send(p, "invoice", dict_exclude_none(req[p]))
    /\ UNCHANGED <<storeVars, envVars, served, joinVars, handler, req, tokens, old_tokens, observed,
                   qb, customers, payload, wbuf, wpos>>

-----------------------------------------------------------------------------
(* /refresh and save_tokens *)

\* mutant of RefreshFailed: the test create_invoice makes
RefreshFailedLoose(status_code) == status_code \notin {200, 201}

\* "if response.status_code != 200: return {"error": response.text}"
RefreshFailed(status_code) == status_code # 200

RECURSIVE DictUpdate(_, _)
\* d.update(e)
DictUpdate(d, e) ==
    IF e = <<>> THEN d
    ELSE DictUpdate(DictSet(d, e[1][1], e[1][2]), Tail(e))

\* mutant of carry_realm: the new payload is merged into the old record
carry_realm_merge(new, old) == DictUpdate(old, new)

\* "if "realmId" in old_tokens: tokens["realmId"] = old_tokens["realmId"]"
carry_realm(new, old) ==
    IF DictHas(old, "realmId")
    THEN DictSet(new, "realmId", DictGet(old, "realmId"))
    ELSE new

\* refresh_access_token up to the answer of the token endpoint
refresh_access_token(p) ==
    /\ pc[p] = "body"
    /\ handler[p] = "refresh"
    /\ IF ~Truthy(REFRESH_TOKEN)
       THEN /\ Finish(p, Ok(ErrorBody("No hay refresh_token en el entorno")))
            /\ UNCHANGED <<up, payload, tokens, calls>>
       ELSE /\ calls' = [calls EXCEPT ![p] =
                            Append(@, Call("token", "Basic", None, REFRESH_TOKEN))]
            /\ \E a \in Answers, i \in service.payloads :
                   /\ up' = [up EXCEPT ![p] = Response(a[1], a[2])]
                   /\ IF RefreshFailed(a[1])
                      THEN /\ Finish(p, Ok(ErrorBody(a[2])))
                           /\ UNCHANGED <<payload, tokens>>
                      ELSE /\ payload' = [payload EXCEPT ![p] = Payloads[i]]
                           /\ tokens' = [tokens EXCEPT ![p] = Payloads[i]]
                           /\ Goto(p, "load")
    /\ UNCHANGED <<storeVars, envVars, served, joinVars, handler, req, old_tokens,
                   observed, qb, customers, wbuf, wpos>>

\* old_tokens = load_tokens() and the realmId carried over
refresh_load(p) ==
    /\ pc[p] = "load"
    /\ observed' = [observed EXCEPT ![p] = FileState(tokenFile)]
    /\ LET r == load_tokens(tokenFile)
       IN IF r.outcome = "raise"
          THEN /\ Finish(p, ServerError)
               /\ UNCHANGED <<tokens, old_tokens>>
          ELSE /\ old_tokens' = [old_tokens EXCEPT ![p] = r.value]
               /\ tokens' = [tokens EXCEPT ![p] = carry_realm(tokens[p], r.value)]
               /\ Goto(p, "open")
    /\ UNCHANGED <<storeVars, envVars, served, joinVars, handler, req, qb, customers, up,
                   payload, calls, wbuf, wpos>>

\* save_tokens: open(TOKENS_FILE, "w") creates or truncates the file
save_tokens_open(p) ==
    /\ pc[p] = "open"
    /\ tokenFile' = [exists |-> TRUE, cells |-> <<>>]
    /\ pinned' = Pin(pinned, tokenFile')
    /\ wbuf' = [wbuf EXCEPT ![p] = json_dump(tokens[p])]
    /\ wpos' = [wpos EXCEPT ![p] = 0]
    /\ Goto(p, "write")
    /\ UNCHANGED <<envVars, served, joinVars, handler, req, tokens, old_tokens, observed, qb,
                   customers, up, payload, calls>>

\* save_tokens: some of the buffered chunks reach the disk; with the last of
\* them the file is closed and /refresh returns
save_tokens_write(p) ==
    /\ pc[p] = "write"
    /\ \E n \in 1..Len(wbuf[p]) :
           /\ tokenFile' = [tokenFile EXCEPT
                               !.cells = WriteAt(@, wpos[p], SubSeq(wbuf[p], 1, n))]
           /\ wpos' = [wpos EXCEPT ![p] = @ + n]
           /\ wbuf' = [wbuf EXCEPT ![p] = SubSeq(@, n + 1, Len(@))]
           /\ IF n = Len(wbuf[p])
              THEN Finish(p, Ok([success |-> TRUE, tokens |-> tokens[p]]))
              ELSE Goto(p, "write")
    /\ pinned' = Pin(pinned, tokenFile')
    /\ UNCHANGED <<envVars, served, joinVars, handler, req, tokens, old_tokens, observed, qb,
                   customers, up, payload, calls>>

\* the response is sent and the request's locals are gone
Return(p) ==
    /\ pc[p] = "done"
    /\ pc' = [pc EXCEPT ![p] = "idle"]
    /\ handler' = [handler EXCEPT ![p] = "none"]
    /\ req' = [req EXCEPT ![p] = NoRequest]
    /\ tokens' = [tokens EXCEPT ![p] = EmptyDict]
    /\ old_tokens' = [old_tokens EXCEPT ![p] = EmptyDict]
    /\ observed' = [observed EXCEPT ![p] = NotRead]
    /\ qb' = [qb EXCEPT ![p] = NoClient]
    /\ customers' = [customers EXCEPT ![p] = <<>>]
    /\ up' = [up EXCEPT ![p] = NoResponse]
    /\ payload' = [payload EXCEPT ![p] = EmptyDict]
    /\ calls' = [calls EXCEPT ![p] = <<>>]
    /\ wbuf' = [wbuf EXCEPT ![p] = <<>>]
    /\ wpos' = [wpos EXCEPT ![p] = 0]
    /\ resp' = [resp EXCEPT ![p] = NoReply]
    /\ UNCHANGED <<storeVars, envVars, served, joinVars>>

-----------------------------------------------------------------------------
(* Specifications *)

\* token files the service starts with
InitFiles ==
    { NoFile,
      FileOf(<< <<"access_token", "old">> >>),
      FileOf(<< <<"access_token", "old">>, <<"realmId", "123">> >>) }

Idle ==
    /\ pc = [p \in Procs |-> "idle"]
    /\ handler = [p \in Procs |-> "none"]
    /\ req = [p \in Procs |-> NoRequest]
    /\ tokens = [p \in Procs |-> EmptyDict]
    /\ old_tokens = [p \in Procs |-> EmptyDict]
    /\ observed = [p \in Procs |-> NotRead]
    /\ qb = [p \in Procs |-> NoClient]
    /\ customers = [p \in Procs |-> <<>>]
    /\ up = [p \in Procs |-> NoResponse]
    /\ payload = [p \in Procs |-> EmptyDict]
    /\ calls = [p \in Procs |-> <<>>]
    /\ wbuf = [p \in Procs |-> <<>>]
    /\ wpos = [p \in Procs |-> 0]
    /\ resp = [p \in Procs |-> NoReply]

JoinOff ==
    /\ jCustomers = <<>>
    /\ jInvoices = <<>>
    /\ jResult = <<>>
    /\ jpc = "off"

Start ==
    /\ pinned = Pin(None, tokenFile)
    /\ served = 0
    /\ Idle
    /\ JoinOff

\* every endpoint, one request at a time
Init ==
    /\ tokenFile \in InitFiles
    /\ REFRESH_TOKEN \in {None, "rt-env"}
    /\ COMPANY_ID \in {None, "co-9"}
    /\ workers = {1}
    /\ service = FullService
    /\ Start

Step(p) ==
    \/ AcquireClient(p)
    \/ customer_info(p)
    \/ get_customers(p)
    \/ get_invoices(p)
    \/ get_inventory(p)
    \/ customer_invoices_customers(p)
    \/ customer_invoices_invoices(p)
    \/ create_invoice(p)
    \/ refresh_access_token(p)
    \/ refresh_load(p)
    \/ save_tokens_open(p)
    \/ save_tokens_write(p)
    \/ Return(p)

Next ==
    \E p \in Procs :
        \/ Receive(p, Handlers \ {"create_invoice"})
        \/ ReceiveInvoice(p)
        \/ Step(p)

Spec == Init /\ [][Next]_vars

\* /refresh and /customers served concurrently by every worker, over a token
\* file that holds a realmId
RaceService ==
    [statuses |-> {200, 401}, texts |-> {"AuthenticationFailed"}, bodies |-> {3},
     payloads |-> {1, 2}]

InitRace ==
    /\ tokenFile = FileOf(<< <<"access_token", "old">>, <<"realmId", "123">> >>)
    /\ REFRESH_TOKEN = "rt-env"
    /\ COMPANY_ID = None
    /\ workers = Procs
    /\ service = RaceService
    /\ Start

NextRace ==
    \E p \in Procs :
        \/ Receive(p, {"refresh", "customers"})
        \/ AcquireClient(p)
        \/ get_customers(p)
        \/ refresh_access_token(p)
        \/ refresh_load(p)
        \/ save_tokens_open(p)
        \/ save_tokens_write(p)
        \/ Return(p)

SpecRace == InitRace /\ [][NextRace]_vars

\* the joined view of /customer-invoices on its own
InitJoin ==
    /\ JoinInit
    /\ tokenFile = NoFile
    /\ pinned = None
    /\ REFRESH_TOKEN = None
    /\ COMPANY_ID = None
    /\ workers = {}
    /\ service = FullService
    /\ served = 0
    /\ Idle

NextJoin ==
    /\ JoinRun
    /\ UNCHANGED <<storeVars, envVars, served, pc, handler, req, tokens, old_tokens, observed, qb,
                   customers, up, payload, calls, wbuf, wpos, resp>>

SpecJoin == InitJoin /\ [][NextJoin]_vars

-----------------------------------------------------------------------------
(* Properties *)

\* C1: when the token store holds no record, each data-fetch endpoint answers
\* with the not-authenticated message and makes no outbound call, whatever
\* COMPANY_ID is.
C1_NoRecordNoCall ==
    \A p \in Procs :
        (handler[p] \in DataFetch /\ observed[p] = "missing")
            => /\ calls[p] = <<>>
               /\ pc[p] = "done"
               /\ resp[p] = Ok(NotAuthenticated)

C1_Witness ==
    \E p \in Procs :
        /\ handler[p] = "customer_invoices"
        /\ pc[p] = "done"
        /\ observed[p] = "missing"
        /\ COMPANY_ID = "co-9"
        /\ resp[p] = Ok(NotAuthenticated)

\* the record C2 expects on disk: the payload, with the prior realmId if any
ExpectedRecord(P, old) ==
    LET base == AsMap(P)
    IN IF DictHas(old, "realmId")
       THEN [k \in DOMAIN base \cup {"realmId"} |->
                IF k = "realmId" THEN DictGet(old, "realmId") ELSE base[k]]
       ELSE base

RefreshSaved(p) ==
    /\ handler[p] = "refresh"
    /\ pc[p] = "done"
    /\ up[p].status_code = 200
    /\ resp[p].status = 200

\* C2: after a /refresh whose provider call succeeded with payload P, the
\* persisted record is P with realmId set to the prior record's realmId when
\* the prior record had one, and exactly P otherwise; no other field of the
\* prior record survives.
C2_RefreshPersists ==
    \A p \in Procs :
        RefreshSaved(p)
            => /\ Complete(tokenFile)
               /\ AsMap(json_load(tokenFile.cells))
                      = ExpectedRecord(payload[p], old_tokens[p])

C2_Witness ==
    \E p \in Procs :
        /\ RefreshSaved(p)
        /\ old_tokens[p] = << <<"access_token", "old">>, <<"realmId", "123">> >>
        /\ payload[p] = << <<"refresh_token", "rt2">> >>
        /\ AsMap(json_load(tokenFile.cells)) = [refresh_token |-> "rt2", realmId |-> "123"]

\* C3: in every handler that calls the external service, a non-success status
\* of the service makes the response exactly {error: <raw upstream body>}.
C3_UpstreamFailureIsErrorBody ==
    \A p \in Procs :
        (pc[p] = "done" /\ up[p] # NoResponse /\ up[p].status_code \notin {200, 201})
            => resp[p] = Ok(ErrorBody(up[p].text))

\* the value a location source yields, None when it yields none
SourceValue(inv, key, field) ==
    IF key \in DOMAIN inv /\ field \in DOMAIN inv[key] /\ Truthy(inv[key][field])
    THEN inv[key][field]
    ELSE None

FirstNonEmpty(inv) ==
    IF SourceValue(inv, "ShipAddr", "City") # None
    THEN SourceValue(inv, "ShipAddr", "City")
    ELSE IF SourceValue(inv, "LocationRef", "name") # None
    THEN SourceValue(inv, "LocationRef", "name")
    ELSE SourceValue(inv, "SalesTermRef", "name")

\* C4: the location of sale of an invoice is the first non-empty value among
\* ShipAddr.City, LocationRef.name and SalesTermRef.name, in that order; a
\* source that yields no value passes to the next one.
C4_FirstNonEmptyWins ==
    jpc = "done" =>
        \A i \in 1..Len(jInvoices) :
            jResult[i].location_of_sale = FirstNonEmpty(jInvoices[i])

\* C5: with a non-empty ShipAddr.City the location is that city, whatever the
\* other two sources hold; with neither ShipAddr nor LocationRef but a
\* SalesTermRef.name it is that name; with none of the three it is null.
C5_LocationCases ==
    jpc = "done" =>
        \A i \in 1..Len(jInvoices) :
            LET inv == jInvoices[i]
                loc == jResult[i].location_of_sale
            IN /\ SourceValue(inv, "ShipAddr", "City") # None
                    => loc = inv.ShipAddr.City
               /\ ({"ShipAddr", "LocationRef"} \cap DOMAIN inv = {}
                     /\ SourceValue(inv, "SalesTermRef", "name") # None)
                    => loc = inv.SalesTermRef.name
               /\ {"ShipAddr", "LocationRef", "SalesTermRef"} \cap DOMAIN inv = {}
                    => loc = None

C5_Witness ==
    /\ jpc = "done"
    /\ Len(jInvoices) = 1
    /\ SourceValue(jInvoices[1], "ShipAddr", "City") = "X"
    /\ SourceValue(jInvoices[1], "LocationRef", "name") = "Y"
    /\ SourceValue(jInvoices[1], "SalesTermRef", "name") = "Z"
    /\ jResult[1].location_of_sale = "X"

\* C6: a /create-invoice body without CustomerRef is rejected by validation
\* before the handler body runs: no token load and no outbound call, whether
\* or not a valid token record exists.
C6_MissingCustomerRefRejected ==
    \A p \in Procs :
        (handler[p] = "create_invoice" /\ "CustomerRef" \notin DOMAIN req[p])
            => /\ pc[p] = "done"
               /\ resp[p] = Unprocessable
               /\ observed[p] = "unread"
               /\ calls[p] = <<>>

C6_Witness ==
    \E p \in Procs :
        /\ handler[p] = "create_invoice"
        /\ DOMAIN req[p] = {"Line"}
        /\ Len(req[p].Line) = 1
        /\ pc[p] = "done"
        /\ resp[p] = Unprocessable
        /\ Complete(tokenFile)
        /\ get_qb_client(json_load(tokenFile.cells), COMPANY_ID) # NoClient

\* the customers an invoice's CustomerRef.value names
Matches(inv, cs) ==
    {j \in 1..Len(cs) :
        /\ "CustomerRef" \in DOMAIN inv
        /\ "value" \in DOMAIN inv.CustomerRef
        /\ cs[j].Id = inv.CustomerRef.value}

\* C7: an invoice whose CustomerRef.value matches no customer Id (or that has
\* no CustomerRef) still yields an entry, with customer and customer_email
\* null; the handler does not fail and the other entries are as they would be.
C7_UnmatchedCustomerIsNull ==
    jpc = "done" =>
        /\ Len(jResult) = Len(jInvoices)
        /\ \A i \in 1..Len(jInvoices) :
               LET hits == Matches(jInvoices[i], jCustomers)
               IN /\ jResult[i].invoice_no = jInvoices[i].DocNumber
                  /\ hits = {}
                       => /\ jResult[i].customer = None
                          /\ jResult[i].customer_email = None
                  /\ hits # {}
                       => LET c == jCustomers[CHOOSE j \in hits : \A k \in hits : k <= j]
                          IN jResult[i].customer = Get(c, "DisplayName", None)

C7_Witness ==
    /\ jpc = "done"
    /\ Len(jInvoices) = 2
    /\ Len(jCustomers) = 2
    /\ Matches(jInvoices[1], jCustomers) = {}
    /\ "CustomerRef" \in DOMAIN jInvoices[1]
    /\ Matches(jInvoices[2], jCustomers) # {}
    /\ jResult[1].customer = None
    /\ jResult[1].customer_email = None
    /\ jResult[2].customer # None
    /\ jResult[2].customer_email # None

\* C8: the token file is neither locked nor written atomically: a load_tokens
\* that interleaves with a save can find the file truncated or partly
\* written, and that read fails with a parse error; it neither returns the
\* empty mapping nor is it recovered.
C8_PartialReadRaises ==
    \A p \in Procs :
        observed[p] = "partial"
            => /\ pc[p] = "done"
               /\ resp[p] = ServerError
               /\ handler[p] # "refresh" => calls[p] = <<>>

C8_Witness ==
    \E p, q \in Procs :
        /\ p # q
        /\ handler[q] = "refresh"
        /\ pc[q] = "write"
        /\ wpos[q] > 0
        /\ handler[p] = "customers"
        /\ observed[p] = "partial"
        /\ Partial(tokenFile)
        /\ tokenFile.cells # <<>>
        /\ resp[p] = ServerError

\* C9: the token store is written only by a /refresh whose provider call
\* returned 200; a /refresh without REFRESH_TOKEN makes no outbound call.
C9_OnlySuccessfulRefreshWrites ==
    [][/\ tokenFile' # tokenFile
           => \E p \in Procs :
                  /\ handler[p] = "refresh"
                  /\ up[p].status_code = 200
                  /\ pc[p] \in {"open", "write"}
                  /\ pc'[p] # pc[p] \/ wpos'[p] # wpos[p]
       /\ \A p \in Procs :
              (handler'[p] = "refresh" /\ ~Truthy(REFRESH_TOKEN)) => calls'[p] = <<>>]_vars

C9_Witness ==
    \E p \in Procs :
        /\ handler[p] = "refresh"
        /\ pc[p] = "done"
        /\ up[p].status_code = 401
        /\ resp[p] = Ok(ErrorBody(up[p].text))
        /\ tokenFile = FileOf(<< <<"access_token", "old">>, <<"realmId", "123">> >>)

=============================================================================
